---- MODULE Spec2Model ----
(***************************************************************************)
(* State-machine model of benchmark.py: the driver main(), the timing      *)
(* wrapper timer(), the pooled executor run_multiprocessing() with its     *)
(* chunk plan, the disk test's scratch file, and the top-level             *)
(* KeyboardInterrupt handler.                                              *)
(***************************************************************************)
EXTENDS Integers, Sequences, FiniteSets, TLC

\* ------------------------------------------------------------- bounds
\* largest --iterations value explored
MaxTotal == 3
\* largest --num_processes value explored
MaxProcs == 2
\* largest --repeat value explored
MaxRepeat == 2
\* largest total_iterations and num_processes given to the chunk plan alone
MaxPlanTotal == 100
MaxPlanProcs == 6

\* ------------------------------------------------------------- state
VARIABLES
    args,            \* parsed command line (main, args = parser.parse_args())
    numpy_installed, \* environment: whether `import numpy` succeeds
    pc,              \* position of the main process
    category,        \* benchmark category whose header was printed last (0: none)
    mode,            \* timer's mode argument of the running timer call
    rep,             \* timer: repetitions of the for loop completed
    total_time,      \* timer: sum of the elapsed times, in clock ticks
    calls,           \* timer: invocations of func made by the running timer call
    chunks,          \* run_multiprocessing: the chunk plan
    taskq,           \* Pool.map: indices of the chunks not yet handed to a worker
    worker,          \* Pool: chunk each worker is executing (0: idle)
    started,         \* per chunk: how many times a worker began executing it
    executed,        \* per chunk: how many times a worker ran it to the end
    ran,             \* per worker: chunks it took in the current pooled call
    failed,          \* Pool.map: some chunk's workload raised
    file_exists,     \* disk_io_operations: the scratch file is on disk
    out,             \* lines printed so far
    status,          \* process exit status (-1 while running)
    error            \* uncaught exception that ended the run ("" if none)

vars == <<args, numpy_installed, pc, category, mode, rep, total_time, calls,
          chunks, taskq, worker, started, executed, ran, failed, file_exists,
          out, status, error>>

timerVars == <<mode, rep, total_time, calls>>
poolVars == <<chunks, taskq, worker, started, executed, ran, failed>>

SingleThreaded == "Single Threaded"
Multiprocessing == "Multiprocessing"

\* ------------------------------------------------- run_multiprocessing
\* the plan without its remainder chunk
chunk_plan_truncated(total_iterations, num_processes) ==
    [i \in 1..num_processes |-> total_iterations \div num_processes]

\* the plan with the remainder added to the last chunk
chunk_plan_folded(total_iterations, num_processes) ==
    LET chunk_size == total_iterations \div num_processes
        remainder == total_iterations % num_processes
    IN  [i \in 1..num_processes |->
            IF i = num_processes THEN chunk_size + remainder ELSE chunk_size]

\* the plan with the remainder taken modulo one worker too many
chunk_plan_off_by_one(total_iterations, num_processes) ==
    LET chunk_size == total_iterations \div num_processes
        base == [i \in 1..num_processes |-> chunk_size]
        remainder == total_iterations % (num_processes + 1)
    IN  IF remainder > 0 THEN Append(base, remainder) ELSE base

\* lines 137-143: the chunk plan
chunk_plan(total_iterations, num_processes) ==
    LET chunk_size == total_iterations \div num_processes
        base == [i \in 1..num_processes |-> chunk_size]
        remainder == total_iterations % num_processes
    IN  IF remainder > 0 THEN Append(base, remainder) ELSE base

\* line 145: Pool(processes=num_processes)
pool_size(num_processes) == num_processes

Workers == 1..pool_size(args.num_processes)

\* ------------------------------------------------------------ driver
\* the size argument main passes to the workload of each category
CategoryArg(c) ==
    CASE c \in {1, 2} -> args.iterations
      [] c = 3 -> args.encrypt_iterations
      [] c = 4 -> args.gzip_size
      [] OTHER -> 0

\* categories timed in both modes (lines 173-189)
Pooled(c) == c \in 1..4

Running == pc \notin {"done", "exit1", "crashed", "interrupted"}

Idle == \A w \in DOMAIN worker : worker[w] = 0

Init ==
    /\ args \in [iterations : 0..MaxTotal,
                 encrypt_iterations : {0, MaxTotal},
                 gzip_size : {MaxTotal},
                 num_processes : 1..MaxProcs,
                 repeat : 0..MaxRepeat,
                 enable_numpy : BOOLEAN]
    /\ numpy_installed \in BOOLEAN
    /\ pc = "start"
    /\ category = 0
    /\ mode = SingleThreaded
    /\ rep = 0
    /\ total_time = 0
    /\ calls = 0
    /\ chunks = <<>>
    /\ taskq = <<>>
    /\ worker = [w \in 1..args.num_processes |-> 0]
    /\ started = <<>>
    /\ executed = <<>>
    /\ ran = [w \in 1..args.num_processes |-> 0]
    /\ failed = FALSE
    /\ file_exists = FALSE
    /\ out = <<>>
    /\ status = -1
    /\ error = ""

\* the check made only when the numpy category is about to run
NumpyMissing_lazy == args.enable_numpy /\ ~numpy_installed /\ category = 6

\* lines 163-168: the startup check of the optional numpy category
NumpyMissing == args.enable_numpy /\ ~numpy_installed

\* lines 161-171
Startup ==
    /\ pc = "start"
    /\ IF NumpyMissing
       THEN /\ out' = Append(out, <<"diagnostic">>)
            /\ pc' = "exit1"
            /\ status' = 1
       ELSE /\ out' = Append(out, <<"starting", args.num_processes>>)
            /\ pc' = "header"
            /\ status' = status
    /\ UNCHANGED <<args, numpy_installed, category, timerVars, poolVars,
                   file_exists, error>>

\* timer line 10, entered from main with the given mode
EnterTimer(m) ==
    /\ pc' = "timer_loop"
    /\ mode' = m
    /\ rep' = 0
    /\ total_time' = 0
    /\ calls' = 0

\* the print of a category header and the call that follows it
\* (lines 173-174, 178-179, 183-184, 187-188, 192-193, 198-199, 203-204)
PrintHeader ==
    /\ pc = "header"
    /\ category' = category + 1
    /\ out' = Append(out, <<"header", category + 1>>)
    /\ IF category + 1 = 5
       THEN pc' = "disk_create" /\ UNCHANGED timerVars
       ELSE EnterTimer(SingleThreaded)
    /\ UNCHANGED <<args, numpy_installed, poolVars, file_exists, status, error>>

\* an exception that nothing catches leaves main: traceback, exit status 1
Raise(e) ==
    /\ pc' = "crashed"
    /\ error' = e
    /\ status' = 1

\* a loop that runs one repetition too few
LoopExhausted_short == rep >= args.repeat - 1

\* line 11: range(repeat) is exhausted
LoopExhausted == rep >= args.repeat

\* elapsed wall-clock time of one call, in clock ticks (lines 12-14)
Durations == {0, 1}

\* lines 11-13 with func a workload: one more repetition starts
CallSingle ==
    /\ pc = "timer_loop"
    /\ ~LoopExhausted
    /\ mode = SingleThreaded
    /\ pc' = "call_single"
    /\ calls' = calls + 1
    /\ UNCHANGED <<args, numpy_installed, category, mode, rep, total_time,
                   poolVars, file_exists, out, status, error>>

\* lines 13-14: the workload returns
SingleReturn ==
    /\ pc = "call_single"
    /\ \E d \in Durations : total_time' = total_time + d
    /\ rep' = rep + 1
    /\ pc' = "timer_loop"
    /\ UNCHANGED <<args, numpy_installed, category, mode, calls, poolVars,
                   file_exists, out, status, error>>

\* a timer that retries the repetition whose workload raised
SingleFail_retry ==
    /\ pc = "call_single"
    /\ pc' = "timer_loop"
    /\ UNCHANGED <<args, numpy_installed, category, timerVars, poolVars,
                   file_exists, out, status, error>>

\* line 13: the workload raises; timer has no handler
SingleFail ==
    /\ pc = "call_single"
    /\ Raise("WorkloadError")
    /\ UNCHANGED <<args, numpy_installed, category, timerVars, poolVars,
                   file_exists, out>>

\* lines 11-13 with func = run_multiprocessing, then lines 137-146 up to
\* the hand-over of the chunks to the pool (map's chunksize is 1 for
\* every plan of num_processes or num_processes + 1 chunks)
CallPooled ==
    /\ pc = "timer_loop"
    /\ ~LoopExhausted
    /\ mode = Multiprocessing
    /\ pc' = "call_pooled"
    /\ calls' = calls + 1
    /\ chunks' = chunk_plan(CategoryArg(category), args.num_processes)
    /\ taskq' = [i \in 1..Len(chunks') |-> i]
    /\ worker' = [w \in Workers |-> 0]
    /\ started' = [i \in 1..Len(chunks') |-> 0]
    /\ executed' = [i \in 1..Len(chunks') |-> 0]
    /\ ran' = [w \in Workers |-> 0]
    /\ failed' = FALSE
    /\ UNCHANGED <<args, numpy_installed, category, mode, rep, total_time,
                   file_exists, out, status, error>>

\* a pool worker takes the next task off the pool's task queue
WorkerGet(w) ==
    /\ pc = "call_pooled"
    /\ worker[w] = 0
    /\ taskq # <<>>
    /\ worker' = [worker EXCEPT ![w] = Head(taskq)]
    /\ taskq' = Tail(taskq)
    /\ started' = [started EXCEPT ![Head(taskq)] = @ + 1]
    /\ ran' = [ran EXCEPT ![w] = @ + 1]
    /\ UNCHANGED <<args, numpy_installed, pc, category, timerVars, chunks,
                   executed, failed, file_exists, out, status, error>>

\* the workload returns in a worker
WorkerFinish(w) ==
    /\ pc = "call_pooled"
    /\ worker[w] # 0
    /\ executed' = [executed EXCEPT ![worker[w]] = @ + 1]
    /\ worker' = [worker EXCEPT ![w] = 0]
    /\ UNCHANGED <<args, numpy_installed, pc, category, timerVars, chunks,
                   taskq, started, ran, failed, file_exists, out, status,
                   error>>

\* the workload raises in a worker: the pool records the exception and
\* the worker goes on to the next task
WorkerFail(w) ==
    /\ pc = "call_pooled"
    /\ worker[w] # 0
    /\ failed' = TRUE
    /\ worker' = [worker EXCEPT ![w] = 0]
    /\ UNCHANGED <<args, numpy_installed, pc, category, timerVars, chunks,
                   taskq, started, executed, ran, file_exists, out, status,
                   error>>

\* a map that returns as soon as every task is handed to a worker
AllTasksDone_dispatched == taskq = <<>>

\* line 146: pool.map blocks until every task has reported back
AllTasksDone == taskq = <<>> /\ Idle

\* lines 146, 14: map returns, the with block ends and terminates the
\* worker processes, timer adds the sample
PoolReturn ==
    /\ pc = "call_pooled"
    /\ AllTasksDone
    /\ ~failed
    /\ \E d \in Durations : total_time' = total_time + d
    /\ rep' = rep + 1
    /\ pc' = "timer_loop"
    /\ ran' = [w \in Workers |-> 0]
    /\ UNCHANGED <<args, numpy_installed, category, mode, calls, chunks,
                   taskq, worker, started, executed, failed, file_exists, out,
                   status, error>>

\* line 146: map re-raises the recorded exception once all tasks are in
PoolRaise ==
    /\ pc = "call_pooled"
    /\ AllTasksDone
    /\ failed
    /\ Raise("WorkloadError")
    /\ UNCHANGED <<args, numpy_installed, category, timerVars, poolVars,
                   file_exists, out>>

\* main, after a timer call or the disk test returns
Continue ==
    IF category < 6 \/ (category = 6 /\ args.enable_numpy)
    THEN pc' = "header" /\ status' = status
    ELSE pc' = "done" /\ status' = 0

\* lines 15-16 (the division is defined: repeat # 0; the line is recorded
\* without the value of the average), then main's next statement
TimerReport ==
    /\ pc = "timer_loop"
    /\ LoopExhausted
    /\ args.repeat # 0
    /\ out' = Append(out, <<"report", mode, args.repeat>>)
    /\ IF mode = SingleThreaded /\ Pooled(category)
       THEN EnterTimer(Multiprocessing) /\ status' = status
       ELSE Continue /\ UNCHANGED timerVars
    /\ UNCHANGED <<args, numpy_installed, category, poolVars, file_exists,
                   error>>

\* line 15 with repeat == 0
TimerDivideByZero ==
    /\ pc = "timer_loop"
    /\ LoopExhausted
    /\ args.repeat = 0
    /\ Raise("ZeroDivisionError")
    /\ UNCHANGED <<args, numpy_installed, category, timerVars, poolVars,
                   file_exists, out>>

\* lines 102-104: the scratch file is created and kept (delete=False)
DiskCreate ==
    /\ pc = "disk_create"
    /\ file_exists' = TRUE
    /\ pc' = "disk_write"
    /\ UNCHANGED <<args, numpy_installed, category, timerVars, poolVars,
                   out, status, error>>

\* lines 106-113
DiskWrite ==
    /\ pc = "disk_write"
    /\ pc' = "disk_read"
    /\ UNCHANGED <<args, numpy_installed, category, timerVars, poolVars,
                   file_exists, out, status, error>>

\* line 112: a write fails (disk full); nothing catches it
DiskWriteFail ==
    /\ pc = "disk_write"
    /\ Raise("OSError")
    /\ UNCHANGED <<args, numpy_installed, category, timerVars, poolVars,
                   file_exists, out>>

\* lines 116-120
DiskRead ==
    /\ pc = "disk_read"
    /\ pc' = "disk_remove"
    /\ UNCHANGED <<args, numpy_installed, category, timerVars, poolVars,
                   file_exists, out, status, error>>

\* lines 122-123
DiskRemove ==
    /\ pc = "disk_remove"
    /\ file_exists' = FALSE
    /\ pc' = "disk_print"
    /\ UNCHANGED <<args, numpy_installed, category, timerVars, poolVars,
                   out, status, error>>

\* lines 194-195
DiskPrint ==
    /\ pc = "disk_print"
    /\ out' = out \o <<<<"write_time">>, <<"read_time">>>>
    /\ Continue
    /\ UNCHANGED <<args, numpy_installed, category, timerVars, poolVars,
                   file_exists, error>>

\* lines 207-210: KeyboardInterrupt anywhere in main; leaving the with
\* block of line 145 terminates the pool's workers
Interrupt ==
    /\ Running
    /\ pc' = "interrupted"
    /\ out' = Append(out, <<"exiting">>)
    /\ status' = 0
    /\ worker' = [w \in DOMAIN worker |-> 0]
    /\ UNCHANGED <<args, numpy_installed, category, timerVars, chunks, taskq,
                   started, executed, ran, failed, file_exists, error>>

Next ==
    \/ Startup
    \/ PrintHeader
    \/ CallSingle
    \/ SingleReturn
    \/ SingleFail
    \/ CallPooled
    \/ \E w \in Workers : WorkerGet(w)
    \/ \E w \in Workers : WorkerFinish(w)
    \/ \E w \in Workers : WorkerFail(w)
    \/ PoolReturn
    \/ PoolRaise
    \/ TimerReport
    \/ TimerDivideByZero
    \/ DiskCreate
    \/ DiskWrite
    \/ DiskWriteFail
    \/ DiskRead
    \/ DiskRemove
    \/ DiskPrint
    \/ Interrupt

Spec == Init /\ [][Next]_vars

\* --------------------------------------------- the chunk plan on its own
InitPlan ==
    /\ args \in [iterations : 0..MaxPlanTotal,
                 encrypt_iterations : {0},
                 gzip_size : {0},
                 num_processes : 1..MaxPlanProcs,
                 repeat : {1},
                 enable_numpy : {FALSE}]
    /\ numpy_installed = FALSE
    /\ pc = "plan"
    /\ category = 0
    /\ mode = Multiprocessing
    /\ rep = 0
    /\ total_time = 0
    /\ calls = 0
    /\ chunks = <<>>
    /\ taskq = <<>>
    /\ worker = [w \in 1..args.num_processes |-> 0]
    /\ started = <<>>
    /\ executed = <<>>
    /\ ran = [w \in 1..args.num_processes |-> 0]
    /\ failed = FALSE
    /\ file_exists = FALSE
    /\ out = <<>>
    /\ status = -1
    /\ error = ""

\* lines 137-143 applied to (total_iterations, num_processes)
Partition ==
    /\ pc = "plan"
    /\ chunks' = chunk_plan(args.iterations, args.num_processes)
    /\ pc' = "planned"
    /\ UNCHANGED <<args, numpy_installed, category, timerVars, taskq, worker,
                   started, executed, ran, failed, file_exists, out, status,
                   error>>

NextPlan == Partition

SpecPartition == InitPlan /\ [][NextPlan]_vars

\* ------------------------------------------------------------ claims
\* sum of a sequence of integers
RECURSIVE Sum(_)
Sum(s) == IF s = <<>> THEN 0 ELSE Head(s) + Sum(Tail(s))

Reports == {i \in 1..Len(out) : out[i][1] = "report"}

ReportPrinted == Len(out') = Len(out) + 1 /\ out'[Len(out')][1] = "report"

RemainderPresent == Len(chunks) > args.num_processes

\* C1: for every total >= 0 and workers >= 1 the chunk plan sums exactly
\* to total.
C1_PlanSumsToTotal ==
    pc = "planned" => Sum(chunks) = args.iterations

C1_Witness ==
    /\ pc = "planned"
    /\ args.iterations = 10
    /\ args.num_processes = 3
    /\ Len(chunks) = 4

C3_RemainderBelowQuotient ==
    pc = "planned" =>
        /\ \A i \in 1..Len(chunks) : chunks[i] >= 0
        /\ RemainderPresent =>
               chunks[Len(chunks)] * args.num_processes < args.iterations

\* C3 as amended: every chunk is >= 0 and a remainder chunk, when present,
\* is at least 1 and strictly less than num_processes.
C3_RemainderBelowWorkers ==
    pc = "planned" =>
        /\ \A i \in 1..Len(chunks) : chunks[i] >= 0
        /\ RemainderPresent =>
               /\ chunks[Len(chunks)] >= 1
               /\ chunks[Len(chunks)] < args.num_processes

C3_Witness ==
    /\ pc = "planned"
    /\ RemainderPresent
    /\ chunks[Len(chunks)] * args.num_processes >= args.iterations

\* C4: the pooled call returns to timer only when every chunk of the plan
\* has been run to the end by a worker and none has failed; once a chunk
\* has failed the call never returns normally, whatever the interleaving.
C4_ReturnsOnlyAfterAllChunks ==
    [][/\ (pc = "call_pooled" /\ pc' = "timer_loop") =>
              /\ ~failed
              /\ Idle
              /\ \A i \in 1..Len(chunks) : started[i] = 1 /\ executed[i] = 1
       /\ failed' => pc' \in {"call_pooled", "crashed", "interrupted"}
       /\ (failed /\ pc = "call_pooled" /\ pc' # "call_pooled") =>
              pc' \in {"crashed", "interrupted"}]_vars

C4_Witness ==
    /\ mode = Multiprocessing
    /\ pc = "timer_loop"
    /\ rep >= 1
    /\ RemainderPresent
    /\ \A i \in 1..Len(chunks) : executed[i] = 1

\* C5: with repeat >= 1 timer invokes the operation one repetition at a
\* time, a repetition starting only when the one before, with every chunk
\* its pool started, is over; it never invokes it more than repeat times
\* and prints its report line only after exactly repeat invocations have
\* finished.
C5_RepetitionsAreSequential ==
    [][/\ calls' > calls =>
              /\ pc = "timer_loop"
              /\ calls = rep
              /\ calls' = calls + 1
              /\ calls' <= args.repeat
              /\ Idle
              /\ taskq = <<>>
              /\ started = executed
       /\ ReportPrinted =>
              /\ args.repeat >= 1
              /\ calls = args.repeat
              /\ rep = args.repeat
              /\ pc = "timer_loop"
              /\ Idle
              /\ taskq = <<>>]_vars

C5_Witness ==
    /\ out # <<>>
    /\ out[Len(out)] = <<"report", Multiprocessing, MaxRepeat>>
    /\ RemainderPresent

\* C6 as stated: with repeat == 0 the run ends in an error that is not a
\* division by zero, and no average is reported.
C6_RepeatZeroFailsFast ==
    args.repeat = 0 =>
        /\ error # "ZeroDivisionError"
        /\ Reports = {}
        /\ pc # "done"

\* C7: when the operation fails in a repetition, timer fails as a whole:
\* the failure leaves main as an uncaught error, nothing runs after it, no
\* repetition is retried or added and no report line is printed for it.
C7_FailureEndsTimer ==
    [][/\ error = ""
       /\ (pc = "call_single" /\ pc' \notin {"call_single", "interrupted"}
              /\ rep' = rep) =>
              /\ pc' = "crashed"
              /\ error' = "WorkloadError"
              /\ status' = 1
              /\ out' = out
              /\ calls' = calls
       /\ (pc = "call_pooled" /\ failed /\ pc' \notin {"call_pooled", "interrupted"}) =>
              /\ pc' = "crashed"
              /\ error' = "WorkloadError"
              /\ status' = 1
              /\ out' = out
              /\ calls' = calls
       /\ pc = "crashed" => FALSE]_vars

C7_Witness ==
    /\ pc = "crashed"
    /\ error = "WorkloadError"
    /\ mode = SingleThreaded
    /\ rep = 0
    /\ calls = 1
    /\ args.repeat = MaxRepeat

\* C8 as stated: after an operator interrupt the run has ended with the
\* disk test's scratch file removed.
C8_NoScratchFileAfterInterrupt ==
    pc = "interrupted" => ~file_exists

\* C9: when numpy is requested and not installed the run ends with exit
\* status 1 and the diagnostic as its only output, before any category:
\* no header, no timing line, no workload invocation.
C9_MissingNumpyStopsAtStartup ==
    (args.enable_numpy /\ ~numpy_installed) =>
        /\ pc \in {"start", "exit1", "interrupted"}
        /\ category = 0
        /\ calls = 0
        /\ chunks = <<>>
        /\ ~file_exists
        /\ \A i \in 1..Len(out) : out[i][1] \in {"diagnostic", "exiting"}
        /\ pc = "exit1" => (status = 1 /\ out = <<<<"diagnostic">>>>)

C9_Witness ==
    /\ pc = "exit1"
    /\ status = 1
    /\ args.enable_numpy
    /\ ~numpy_installed

\* C10 as stated: each chunk is executed exactly once by one worker of a
\* pool of exactly num_processes workers, no worker executes more than one
\* chunk of a pooled call, and at most num_processes chunks execute at the
\* same time.
C10_OneChunkPerWorker ==
    /\ DOMAIN worker = 1..args.num_processes
    /\ \A i \in 1..Len(started) : started[i] <= 1 /\ executed[i] <= started[i]
    /\ Cardinality({w \in DOMAIN worker : worker[w] # 0}) <= args.num_processes
    /\ \A w \in DOMAIN ran : ran[w] <= 1

====
